---- MODULE Spec2Model ----
(***************************************************************************)
(* Keyword bid-management sync loop: the SERP decision rule and the loop   *)
(* that reads keyword rows, fetches SERP data per device, decides a status *)
(* and writes it back.  Two variants of the loop live in the repository:   *)
(*   "script"  - src/serp_analysis.py                                      *)
(*   "service" - src/serp_analysis/main.py with src/serp_analysis/logic.py *)
(***************************************************************************)
EXTENDS Integers, Sequences, FiniteSets, TLC

(***************************************************************************)
(* Bounds of the model.                                                    *)
(***************************************************************************)
\* items the two SERP responses of a record hold together, when the decision
\* of one record is explored on its own (DecideSpec)
MaxItems == 3
\* items one SERP response holds, when whole cycles are explored (Spec)
MaxLoopItems == 1
\* rows the source query returns
MaxRows == 2

(***************************************************************************)
(* Python values.                                                          *)
(*   A missing dict key is modelled by a sentinel: NoDomain for 'domain',  *)
(*   NoRank for 'rank_absolute'; has_ads says whether key 'ads' exists.    *)
(***************************************************************************)
NoDomain == ""
NoRank == 0
MyDomain == "example.com"
RivalDomain == "rival.com"

Organic(d, r) ==
    [type |-> "organic", domain |-> d, rank_absolute |-> r,
     has_ads |-> FALSE, ads |-> <<>>]
Paid(d) ==
    [type |-> "paid", domain |-> d, rank_absolute |-> NoRank,
     has_ads |-> FALSE, ads |-> <<>>]
\* an item of type "ads" whose key 'ads' lists nested ad entries; an entry is
\* modelled by its 'domain' (NoDomain: the entry has no 'domain' key)
AdsBlock(entries) ==
    [type |-> "ads", domain |-> NoDomain, rank_absolute |-> NoRank,
     has_ads |-> TRUE, ads |-> entries]
\* an item of type "ads" without the key 'ads'
AdsNoKey ==
    [type |-> "ads", domain |-> NoDomain, rank_absolute |-> NoRank,
     has_ads |-> FALSE, ads |-> <<>>]

\* the SERP items the vendor API may return
Items ==
    { Organic(MyDomain, 1), Organic(RivalDomain, 1),
      Organic(MyDomain, 2), Organic(RivalDomain, 2),
      Paid(RivalDomain), Paid(MyDomain),
      AdsBlock(<<RivalDomain>>), AdsBlock(<<MyDomain>>),
      AdsBlock(<<NoDomain>>), AdsNoKey }

SeqsUpTo(S, n) == UNION { [1..k -> S] : k \in 0..n }

(***************************************************************************)
(* A SERP response as get_serp_data returns it.  shape says how far the    *)
(* expected nesting serp_data['tasks'][0]['result'][0]['items'] exists:    *)
(*   "null"         None (the fetch failed)                                *)
(*   "empty"        {}                                                     *)
(*   "no_tasks"     a non-empty dict without key 'tasks'                   *)
(*   "tasks_empty"  'tasks': [] (or null)                                  *)
(*   "task_null"    'tasks': [null]           (wrong shape)                *)
(*   "no_result"    tasks[0] has no key 'result'                           *)
(*   "result_empty" 'result': null (or [])                                 *)
(*   "no_items"     result[0] has no key 'items'                           *)
(*   "items_null"   'items': null             (wrong shape)                *)
(*   "ok"           'items': a list of item dicts                          *)
(***************************************************************************)
MalformedShapes ==
    { "empty", "no_tasks", "tasks_empty", "task_null", "no_result",
      "result_empty", "no_items", "items_null" }
NullSerp == [shape |-> "null", items |-> <<>>]
OkSerp(its) == [shape |-> "ok", items |-> its]
Malformed(sh) == [shape |-> sh, items |-> <<>>]

SerpPayloads(n) ==
    {NullSerp} \cup { Malformed(sh) : sh \in MalformedShapes }
               \cup { OkSerp(its) : its \in SeqsUpTo(Items, n) }

\* a function's outcome: a returned value, or an exception leaving the function
Ret(v) == [exc |-> FALSE, val |-> v]
Raise == [exc |-> TRUE, val |-> FALSE]

(***************************************************************************)
(* Decision engine: src/serp_analysis/logic.py and src/serp_analysis.py.   *)
(***************************************************************************)
\* the guard both checks open with: "return" (return False), "raise"
\* ('result' not in None is a TypeError) or "pass"
StructureGuard(serp_data) ==
    CASE serp_data.shape \in {"null", "empty"} -> "return"
      [] serp_data.shape = "no_tasks" -> "return"
      [] serp_data.shape = "tasks_empty" -> "return"
      [] serp_data.shape = "task_null" -> "raise"
      [] serp_data.shape = "no_result" -> "return"
      [] serp_data.shape = "result_empty" -> "return"
      [] OTHER -> "pass"

\* result[0].get('items', []): the default only replaces a missing key, so
\* 'items': null is handed to the for loop, which raises TypeError
ItemsOrDefault(serp_data) ==
    CASE serp_data.shape = "no_items" -> Ret(<<>>)
      [] serp_data.shape = "items_null" -> Raise
      [] OTHER -> Ret(serp_data.items)

\* the nested loop without the test against domain_url: every ad that has a
\* domain counts as a competitor's
RECURSIVE AdsLoopAnyDomain(_, _)
AdsLoopAnyDomain(ads, domain_url) ==
    IF ads = <<>> THEN FALSE
    ELSE IF Head(ads) # NoDomain THEN TRUE
    ELSE AdsLoopAnyDomain(Tail(ads), domain_url)

\* for ad in item['ads']: if 'domain' in ad and ad['domain'] != domain_url
RECURSIVE AdsLoop(_, _)
AdsLoop(ads, domain_url) ==
    IF ads = <<>> THEN FALSE
    ELSE IF Head(ads) # NoDomain /\ Head(ads) # domain_url THEN TRUE
    ELSE AdsLoop(Tail(ads), domain_url)

\* for item in items: if item.get('type') == 'ads' and 'ads' in item: ...
RECURSIVE CompetitorAdsLoop(_, _)
CompetitorAdsLoop(items, domain_url) ==
    IF items = <<>> THEN FALSE
    ELSE LET item == Head(items) IN
         IF item.type = "ads" /\ item.has_ads /\ AdsLoop(item.ads, domain_url)
         THEN TRUE
         ELSE CompetitorAdsLoop(Tail(items), domain_url)

check_for_competitor_ads(serp_data, domain_url) ==
    LET g == StructureGuard(serp_data)
        its == ItemsOrDefault(serp_data)
    IN  IF g = "return" THEN Ret(FALSE)
        ELSE IF g = "raise" \/ its.exc THEN Raise
        ELSE Ret(CompetitorAdsLoop(its.val, domain_url))

\* the loop of logic.py without the domain test: any organic rank-1 item counts
RECURSIVE RankedOneLoopAnyDomain(_, _)
RankedOneLoopAnyDomain(items, domain_url) ==
    IF items = <<>> THEN FALSE
    ELSE LET item == Head(items) IN
         IF item.type = "organic" /\ item.rank_absolute = 1
         THEN TRUE
         ELSE RankedOneLoopAnyDomain(Tail(items), domain_url)

\* logic.py: the loop goes on after a rank-1 organic item of another domain
RECURSIVE RankedOneLoop(_, _)
RankedOneLoop(items, domain_url) ==
    IF items = <<>> THEN FALSE
    ELSE LET item == Head(items) IN
         IF item.type = "organic" /\ item.rank_absolute = 1
            /\ item.domain = domain_url
         THEN TRUE
         ELSE RankedOneLoop(Tail(items), domain_url)

is_domain_ranked_number_one(serp_data, domain_url) ==
    LET g == StructureGuard(serp_data)
        its == ItemsOrDefault(serp_data)
    IN  IF g = "return" THEN Ret(FALSE)
        ELSE IF g = "raise" \/ its.exc THEN Raise
        ELSE Ret(RankedOneLoop(its.val, domain_url))

\* serp_analysis.py: the first rank-1 organic item decides (else: return False)
RECURSIVE RankedOneLoopScript(_, _)
RankedOneLoopScript(items, domain_url) ==
    IF items = <<>> THEN FALSE
    ELSE LET item == Head(items) IN
         IF item.type = "organic" /\ item.rank_absolute = 1
         THEN item.domain = domain_url
         ELSE RankedOneLoopScript(Tail(items), domain_url)

is_domain_ranked_number_one_script(serp_data, domain_url) ==
    LET g == StructureGuard(serp_data)
        its == ItemsOrDefault(serp_data)
    IN  IF g = "return" THEN Ret(FALSE)
        ELSE IF g = "raise" \/ its.exc THEN Raise
        ELSE Ret(RankedOneLoopScript(its.val, domain_url))

(***************************************************************************)
(* Competitor report: extract_competitor_domains, src/serp_analysis/main.py*)
(***************************************************************************)
\* float('inf'): larger than every rank_absolute of the model
Infinity == 1000
RankOrInf(item) ==
    IF item.rank_absolute = NoRank THEN Infinity ELSE item.rank_absolute

\* first loop: the rank of the first organic item of my_domain, else inf
RECURSIVE MyDomainRank(_, _)
MyDomainRank(items, my_domain) ==
    IF items = <<>> THEN Infinity
    ELSE IF Head(items).type = "organic" /\ Head(items).domain = my_domain
    THEN RankOrInf(Head(items))
    ELSE MyDomainRank(Tail(items), my_domain)

\* the second loop without its test on my_domain
CompetitorSetWithOwn(items, my_domain) ==
    LET my_domain_rank == MyDomainRank(items, my_domain) IN
    { items[k].domain : k \in
        { j \in 1..Len(items) :
            /\ items[j].domain # NoDomain
            /\ \/ items[j].type = "paid"
               \/ /\ items[j].type = "organic"
                  /\ RankOrInf(items[j]) < my_domain_rank } }

\* the second loop with "<=" in place of "<"
CompetitorSetNonStrict(items, my_domain) ==
    LET my_domain_rank == MyDomainRank(items, my_domain) IN
    { items[k].domain : k \in
        { j \in 1..Len(items) :
            /\ items[j].domain # NoDomain
            /\ items[j].domain # my_domain
            /\ \/ items[j].type = "paid"
               \/ /\ items[j].type = "organic"
                  /\ RankOrInf(items[j]) <= my_domain_rank } }

\* second loop, as the set it builds
CompetitorSet(items, my_domain) ==
    LET my_domain_rank == MyDomainRank(items, my_domain) IN
    { items[k].domain : k \in
        { j \in 1..Len(items) :
            /\ items[j].domain # NoDomain
            /\ items[j].domain # my_domain
            /\ \/ items[j].type = "paid"
               \/ /\ items[j].type = "organic"
                  /\ RankOrInf(items[j]) < my_domain_rank } }

extract_competitor_domains(serp_data, my_domain) ==
    LET g == StructureGuard(serp_data) IN
    IF g = "return" \/ serp_data.shape = "no_items" THEN Ret({})
    ELSE IF g = "raise" \/ serp_data.shape = "items_null" THEN Raise
    ELSE Ret(CompetitorSet(serp_data.items, my_domain))

(***************************************************************************)
(* The sync loop: main() of src/serp_analysis.py ("script") and of         *)
(* src/serp_analysis/main.py ("service").                                  *)
(***************************************************************************)
VARIABLES
    variant,            \* which of the two programs runs
    configured,         \* service: bq_project_id was set at import time
    secrets_fetched,    \* service: secrets read at import time before one failed
    table,              \* the warehouse table, a sequence of rows
    source_outcome,     \* how the source read of this cycle ended
    keywords_data,      \* the rows the source query returned
    pc,                 \* where main() stands
    idx,                \* position of the for loop in keywords_data
    desktop_serp_data,  \* get_serp_data(keyword, "desktop")
    mobile_serp_data,   \* get_serp_data(keyword, "mobile")
    analysis,           \* the four booleans of the current record
    new_status,         \* the decided status of the current record
    all_competitors,    \* the combined competitor domains (service)
    fetches,            \* SERP fetches issued, in order
    sink_calls,         \* sink writes issued, in order
    response            \* what main() returned

sync_vars ==
    << variant, configured, secrets_fetched, table, source_outcome,
       keywords_data, pc, idx, desktop_serp_data, mobile_serp_data, analysis,
       new_status, all_competitors, fetches, sink_calls, response >>

\* the ads push: src/main.py and src/changes_to_gads/main.py
VARIABLES
    ads_variant,        \* which of the two push programs runs
    ads_configured,     \* the credentials could be read
    dry_run,            \* push service: app.config["DRY_RUN"]
    ads_rows,           \* the rows of the keyword table the push reads
    ads_pc,             \* where the push handler stands
    customers_left,     \* the customer groups still to push, in order
    mutate_calls,       \* mutate_ad_group_criteria requests sent, in order
    applied,            \* status updates the ads platform has committed
    history,            \* push service: history rows handed to the log
    successful_count,   \* function: the count it prints
    ads_response,       \* what the push handler returned
    env_dry_run,        \* push service: the DRY_RUN environment variable
    prepared_log,       \* push service: the operations prepared, in order
    account_keywords,   \* preview: criterion id -> status in the ads account
    update_count,       \* preview: what report_on_planned_changes returned
    warned              \* preview: the ids it warned about

preview_vars == << account_keywords, update_count, warned >>

ads_vars ==
    << ads_variant, ads_configured, dry_run, ads_rows, ads_pc, customers_left,
       mutate_calls, applied, history, successful_count, ads_response,
       env_dry_run, prepared_log, preview_vars >>

\* two overlapping cycles of the sync service on one table
VARIABLES
    o_pc,               \* where each cycle's main() stands
    o_data,             \* each cycle's keywords_data
    o_idx,              \* each cycle's loop position
    o_write             \* each cycle's UPDATE job in flight

overlap_vars == << o_pc, o_data, o_idx, o_write >>

\* a cycle run a second time on the same SERP responses
VARIABLES
    cycle,              \* which run of the cycle this is
    serp_of,            \* keyword -> the desktop and mobile responses it gets
    first               \* what the first run left behind

rerun_vars == << cycle, serp_of, first >>

\* the GSC-to-BigQuery script
VARIABLES
    g_pc,               \* where the __main__ block stands
    g_steps,            \* the steps that succeeded, in order
    g_config,           \* the secrets retrieved
    g_rows,             \* the rows the GSC query returned
    g_table,            \* the destination table
    g_load_started      \* load_table_from_dataframe was called

gsc_vars == << g_pc, g_steps, g_config, g_rows, g_table, g_load_started >>

vars == << sync_vars, ads_vars, overlap_vars, rerun_vars, gsc_vars >>

Variants == {"script", "service"}
\* the import-time try block reads, in this order: bigquery_project_id,
\* bigquery_dataset_id, bigquery_table_id, dataforseo_username,
\* dataforseo_password; the first failure leaves the later names unbound
NumSecrets == 5
\* full_table_id needs the first three of them
TableSecrets == 3
\* None (a NULL status) is modelled by NoStatus
NoStatus == ""
Statuses == {"ENABLED", "PAUSED", "UNKNOWN", NoStatus}

Row(k, st) ==
    [keyword |-> k, status |-> st, domain_url |-> MyDomain,
     competitor_domains |-> {}]
Tables == UNION { [1..n -> Statuses] : n \in 0..MaxRows }
TableOf(sts) == [k \in 1..Len(sts) |-> Row(k, sts[k])]

NoAnalysis ==
    [desktop_has_competitor_ad |-> FALSE, mobile_has_competitor_ad |-> FALSE,
     desktop_is_ranked_one |-> FALSE, mobile_is_ranked_one |-> FALSE]
Running == [code |-> -1, body |-> ""]
\* the script's main() returns None whatever happened
ReturnedNone == [code |-> 0, body |-> "None"]
\* an exception left main(): a traceback (script), Flask's 500 (service)
Uncaught(v) ==
    IF v = "script" THEN [code |-> 1, body |-> "Traceback"]
    ELSE [code |-> 500, body |-> "Internal Server Error"]
NotConfigured ==
    [code |-> 500, body |-> "FATAL: Service is not configured."]
ClientError == [code |-> 500, body |-> "Error initializing BigQuery client"]
SourceError ==
    [code |-> 500,
     body |-> "Processing halted due to an error while fetching from BigQuery."]
NoKeywords == [code |-> 200, body |-> "No keywords found"]
Complete == [code |-> 200, body |-> "Processing complete"]

\* no count was printed
NoCount == -1
\* the environment has no DRY_RUN variable
EnvUnset == [set |-> FALSE, value |-> ""]
\* the push programs are not running
AdsIdle ==
    /\ ads_variant = "function"
    /\ ads_configured = FALSE
    /\ dry_run = FALSE
    /\ ads_rows = << >>
    /\ ads_pc = "off"
    /\ customers_left = << >>
    /\ mutate_calls = << >>
    /\ applied = {}
    /\ history = << >>
    /\ successful_count = NoCount
    /\ ads_response = Running
    /\ env_dry_run = EnvUnset
    /\ prepared_log = << >>
    /\ account_keywords = << >>
    /\ update_count = NoCount
    /\ warned = {}

Cycles == {1, 2}
NoWrite == [keyword |-> 0, new_status |-> NoStatus, competitor_domains |-> {},
            based_on |-> NoStatus]
\* there is no second cycle
OverlapIdle ==
    /\ o_pc = [p \in Cycles |-> "off"]
    /\ o_data = [p \in Cycles |-> << >>]
    /\ o_idx = [p \in Cycles |-> 0]
    /\ o_write = [p \in Cycles |-> NoWrite]

\* nothing is known of a first run
NoFirst ==
    [writes |-> 0, table |-> << >>, source |-> "pending", response |-> Running]
\* the cycle is not run a second time
RerunIdle ==
    /\ cycle = 0
    /\ serp_of = << >>
    /\ first = NoFirst

\* the table as the previous run of the GSC script left it
PreviousLoad(n) == [loaded_by |-> "previous", rows |-> n]
\* the GSC script is not running
GscIdle ==
    /\ g_pc = "off"
    /\ g_steps = << >>
    /\ g_config = {}
    /\ g_rows = 0
    /\ g_table = PreviousLoad(0)
    /\ g_load_started = FALSE

Init ==
    /\ AdsIdle
    /\ OverlapIdle
    /\ RerunIdle
    /\ GscIdle
    /\ variant \in Variants
    /\ configured \in IF variant = "script" THEN {TRUE} ELSE BOOLEAN
    /\ secrets_fetched \in IF variant = "script" THEN {NumSecrets}
                          ELSE IF configured THEN 1..NumSecrets ELSE {0}
    /\ table \in { TableOf(sts) : sts \in Tables }
    /\ source_outcome = "pending"
    /\ keywords_data = <<>>
    /\ pc = "start"
    /\ idx = 0
    /\ desktop_serp_data = NullSerp
    /\ mobile_serp_data = NullSerp
    /\ analysis = NoAnalysis
    /\ new_status = NoStatus
    /\ all_competitors = {}
    /\ fetches = <<>>
    /\ sink_calls = <<>>
    /\ response = Running

\* SELECT keyword, status, domain_url FROM table; on a query error the script
\* returns [] and the service returns None
get_keywords_from_bigquery(v, query_ok, tbl) ==
    IF query_ok
    THEN [is_none |-> FALSE,
          rows |-> [k \in 1..Len(tbl) |->
                      [keyword |-> tbl[k].keyword, status |-> tbl[k].status,
                       domain_url |-> tbl[k].domain_url]]]
    ELSE [is_none |-> (v = "service"), rows |-> <<>>]

\* the responses get_serp_data may hand back in a cycle
LoopPayloads == SerpPayloads(MaxLoopItems)

\* Python truthiness of a response: None and {} are falsy
Truthy(serp_data) == serp_data.shape \notin {"null", "empty"}

\* script: check(...) if serp_data else False; service: check(...)
CallCheck(v, serp_data, domain_url) ==
    IF v = "script" /\ ~Truthy(serp_data) THEN Ret(FALSE)
    ELSE check_for_competitor_ads(serp_data, domain_url)
CallRanked(v, serp_data, domain_url) ==
    IF v = "script"
    THEN IF Truthy(serp_data)
         THEN is_domain_ranked_number_one_script(serp_data, domain_url)
         ELSE Ret(FALSE)
    ELSE is_domain_ranked_number_one(serp_data, domain_url)

\* the combination rule with "or" between the two rank tests
DecideEitherDevice(v, current_status, a) ==
    IF a.desktop_has_competitor_ad \/ a.mobile_has_competitor_ad
    THEN "ENABLED"
    ELSE IF a.desktop_is_ranked_one \/ a.mobile_is_ranked_one
    THEN "PAUSED"
    ELSE IF v = "script" THEN "ENABLED" ELSE current_status

\* the combination rule: the script starts from None and always decides, the
\* service starts from new_status = current_status
Decide(v, current_status, a) ==
    IF a.desktop_has_competitor_ad \/ a.mobile_has_competitor_ad
    THEN "ENABLED"
    ELSE IF a.desktop_is_ranked_one /\ a.mobile_is_ranked_one
    THEN "PAUSED"
    ELSE IF v = "script" THEN "ENABLED" ELSE current_status

\* script: if new_status and new_status != current_status; service: if new_status
WriteNeeded(v, status, current_status) ==
    IF v = "script"
    THEN status # NoStatus /\ status # current_status
    ELSE status # NoStatus

Finish(r) ==
    /\ pc' = "done"
    /\ response' = r

\* full_table_id of get_keywords_from_bigquery reads bq_dataset_id and
\* bq_table_id ahead of its try block: a NameError when they are unbound
TableNamesUnbound == variant = "service" /\ secrets_fetched < TableSecrets
\* get_serp_data reads dataforseo_username and dataforseo_password while it
\* builds the request; a NameError is not a RequestException
SerpNamesUnbound == variant = "service" /\ secrets_fetched < NumSecrets

\* main() up to the for loop: configuration check (service), BigQuery client,
\* source query, and the tests on its result
BeginCycle ==
    /\ pc = "start"
    /\ IF variant = "service" /\ ~configured
       THEN /\ Finish(NotConfigured)
            /\ UNCHANGED << source_outcome, keywords_data, idx >>
       ELSE \E out \in {"client_error", "query_error", "rows"} :
              LET got == get_keywords_from_bigquery(variant, out = "rows", table)
              IN  IF out = "client_error"
                  THEN /\ source_outcome' = out
                       /\ Finish(IF variant = "script" THEN ReturnedNone
                                 ELSE ClientError)
                       /\ UNCHANGED << keywords_data, idx >>
                  ELSE IF TableNamesUnbound
                  THEN /\ source_outcome' = "unbound_name"
                       /\ Finish(Uncaught(variant))
                       /\ UNCHANGED << keywords_data, idx >>
                  ELSE /\ source_outcome' = out
                       /\ IF got.is_none
                          THEN /\ Finish(SourceError)
                               /\ UNCHANGED << keywords_data, idx >>
                          ELSE IF got.rows = <<>>
                          THEN /\ Finish(IF variant = "script" THEN ReturnedNone
                                         ELSE NoKeywords)
                               /\ UNCHANGED << keywords_data, idx >>
                          ELSE /\ keywords_data' = got.rows
                               /\ idx' = 1
                               /\ pc' = "fetch_desktop"
                               /\ UNCHANGED response
    /\ UNCHANGED << ads_vars, overlap_vars, rerun_vars, gsc_vars >>
    /\ UNCHANGED << variant, configured, secrets_fetched, table,
                    desktop_serp_data, mobile_serp_data, analysis, new_status,
                    all_competitors, fetches, sink_calls >>

\* for row in keywords_data: the row of the i-th iteration, in list order
RowAtReversed(data, i) == data[Len(data) + 1 - i]
RowAt(data, i) == data[i]

DesktopDevice == "desktop"
\* the device_type of the second get_serp_data call of an iteration
MobileDeviceRepeated == "desktop"
MobileDevice == "mobile"

\* desktop_serp_data = get_serp_data(keyword, device_type="desktop"), the
\* response drawn from the payloads P
FetchDesktopFrom(P) ==
    /\ pc = "fetch_desktop"
    /\ IF SerpNamesUnbound
       THEN /\ Finish(Uncaught(variant))
            /\ UNCHANGED << desktop_serp_data, fetches >>
       ELSE /\ \E p \in P : desktop_serp_data' = p
            /\ fetches' = Append(fetches,
                 << RowAt(keywords_data, idx).keyword, DesktopDevice >>)
            /\ pc' = "fetch_mobile"
            /\ UNCHANGED response
    /\ UNCHANGED << ads_vars, overlap_vars, rerun_vars, gsc_vars >>
    /\ UNCHANGED << variant, configured, secrets_fetched, table, source_outcome,
                    keywords_data, idx, mobile_serp_data, analysis, new_status,
                    all_competitors, sink_calls >>

\* mobile_serp_data = get_serp_data(keyword, device_type="mobile")
FetchMobileFrom(P) ==
    /\ pc = "fetch_mobile"
    /\ IF SerpNamesUnbound
       THEN /\ Finish(Uncaught(variant))
            /\ UNCHANGED << mobile_serp_data, fetches >>
       ELSE /\ \E p \in P : mobile_serp_data' = p
            /\ fetches' = Append(fetches,
                 << RowAt(keywords_data, idx).keyword, MobileDevice >>)
            /\ pc' = "analyze"
            /\ UNCHANGED response
    /\ UNCHANGED << ads_vars, overlap_vars, rerun_vars, gsc_vars >>
    /\ UNCHANGED << variant, configured, secrets_fetched, table, source_outcome,
                    keywords_data, idx, desktop_serp_data, analysis, new_status,
                    all_competitors, sink_calls >>

FetchDesktop == FetchDesktopFrom(LoopPayloads)
FetchMobile == FetchMobileFrom(LoopPayloads)

\* the four checks, the combination rule and (service) the competitor report:
\* everything between the second fetch and the sink call
AnalyzeOutcome(v, row, desktop, mobile) ==
    LET dAd == CallCheck(v, desktop, row.domain_url)
        mAd == CallCheck(v, mobile, row.domain_url)
        dR1 == CallRanked(v, desktop, row.domain_url)
        mR1 == CallRanked(v, mobile, row.domain_url)
        a == [desktop_has_competitor_ad |-> dAd.val,
              mobile_has_competitor_ad |-> mAd.val,
              desktop_is_ranked_one |-> dR1.val,
              mobile_is_ranked_one |-> mR1.val]
        st == Decide(v, row.status, a)
        dC == extract_competitor_domains(desktop, row.domain_url)
        mC == extract_competitor_domains(mobile, row.domain_url)
        report == v = "service" /\ st # NoStatus
    IN  IF dAd.exc \/ mAd.exc \/ dR1.exc \/ mR1.exc
           \/ (report /\ (dC.exc \/ mC.exc))
        THEN [exc |-> TRUE, analysis |-> NoAnalysis, status |-> NoStatus,
              competitors |-> {}]
        ELSE [exc |-> FALSE, analysis |-> a, status |-> st,
              competitors |-> IF report THEN dC.val \cup mC.val ELSE {}]

AnalyzeRecord ==
    /\ pc = "analyze"
    /\ LET out == AnalyzeOutcome(variant, RowAt(keywords_data, idx),
                                 desktop_serp_data, mobile_serp_data)
       IN  IF out.exc
           THEN /\ Finish(Uncaught(variant))
                /\ UNCHANGED << analysis, new_status, all_competitors >>
           ELSE /\ analysis' = out.analysis
                /\ new_status' = out.status
                /\ all_competitors' = out.competitors
                /\ pc' = "decided"
                /\ UNCHANGED response
    /\ UNCHANGED << ads_vars, overlap_vars, rerun_vars, gsc_vars >>
    /\ UNCHANGED << variant, configured, secrets_fetched, table, source_outcome, keywords_data,
                    idx,
                    desktop_serp_data, mobile_serp_data, fetches, sink_calls >>

\* end of one loop iteration: the next record, or the end of main(); the
\* loop's local variables are rebound by the next iteration before any use, so
\* they are cleared here
NextRecord ==
    /\ desktop_serp_data' = NullSerp
    /\ mobile_serp_data' = NullSerp
    /\ analysis' = NoAnalysis
    /\ new_status' = NoStatus
    /\ all_competitors' = {}
    /\ IF idx < Len(keywords_data)
       THEN /\ idx' = idx + 1
            /\ pc' = "fetch_desktop"
            /\ UNCHANGED response
       ELSE /\ Finish(IF variant = "script" THEN ReturnedNone ELSE Complete)
            /\ UNCHANGED idx

\* the UPDATE without its WHERE clause
UpdateRowsAll(v, tbl, keyword, status, domains) ==
    [k \in 1..Len(tbl) |->
        IF v = "script"
        THEN [tbl[k] EXCEPT !.status = status]
        ELSE [tbl[k] EXCEPT !.status = status,
                            !.competitor_domains = domains]]

\* UPDATE table SET status = @new_status [, competitor_domains = @domains]
\* WHERE keyword = @keyword
UpdateRows(v, tbl, keyword, status, domains) ==
    [k \in 1..Len(tbl) |->
        IF tbl[k].keyword = keyword
        THEN IF v = "script"
             THEN [tbl[k] EXCEPT !.status = status]
             ELSE [tbl[k] EXCEPT !.status = status,
                                 !.competitor_domains = domains]
        ELSE tbl[k]]

\* update_keyword_status / update_keyword_data: one attempt, an exception of
\* the query job is caught and logged
SinkWrite ==
    /\ pc = "decided"
    /\ WriteNeeded(variant, new_status, RowAt(keywords_data, idx).status)
    /\ \E ok \in BOOLEAN :
         /\ sink_calls' = Append(sink_calls,
                [keyword |-> RowAt(keywords_data, idx).keyword,
                 new_status |-> new_status,
                 competitor_domains |-> all_competitors,
                 ok |-> ok])
         /\ table' = IF ok
                     THEN UpdateRows(variant, table, RowAt(keywords_data, idx).keyword,
                                     new_status, all_competitors)
                     ELSE table
    /\ NextRecord
    /\ UNCHANGED << ads_vars, overlap_vars, rerun_vars, gsc_vars >>
    /\ UNCHANGED << variant, configured, secrets_fetched, source_outcome, keywords_data,
                    fetches >>

\* no sink call for this record
SkipWrite ==
    /\ pc = "decided"
    /\ ~WriteNeeded(variant, new_status, RowAt(keywords_data, idx).status)
    /\ NextRecord
    /\ UNCHANGED << ads_vars, overlap_vars, rerun_vars, gsc_vars >>
    /\ UNCHANGED << variant, configured, secrets_fetched, table, source_outcome, keywords_data,
                    fetches,
                    sink_calls >>

Next ==
    \/ BeginCycle
    \/ FetchDesktop
    \/ FetchMobile
    \/ AnalyzeRecord
    \/ SinkWrite
    \/ SkipWrite

Spec == Init /\ [][Next]_vars

(***************************************************************************)
(* The same cycle on a handful of SERP responses: a failed fetch, a        *)
(* response whose item list is null, an empty page, the advertiser ranked  *)
(* first, a competitor ranked first, a competitor's ad.                    *)
(***************************************************************************)
CyclePayloads ==
    { NullSerp,
      Malformed("items_null"),
      OkSerp(<< >>),
      OkSerp(<< Organic(MyDomain, 1) >>),
      OkSerp(<< Organic(RivalDomain, 1) >>),
      OkSerp(<< AdsBlock(<< RivalDomain >>) >>) }

CycleFetchDesktop == FetchDesktopFrom(CyclePayloads)
CycleFetchMobile == FetchMobileFrom(CyclePayloads)

CycleNext ==
    \/ BeginCycle
    \/ CycleFetchDesktop
    \/ CycleFetchMobile
    \/ AnalyzeRecord
    \/ SinkWrite
    \/ SkipWrite

CycleSpec == Init /\ [][CycleNext]_vars

(***************************************************************************)
(* The decision of one record, explored on its own: main() stands after    *)
(* the two fetches of a record, with any pair of SERP responses.           *)
(***************************************************************************)
\* the size of a response: its items; a response without an item list
\* counts as two
PayloadsOfSize(k) ==
    { OkSerp(its) : its \in [1..k -> Items] }
        \cup (IF k = 2
              THEN {NullSerp} \cup { Malformed(sh) : sh \in MalformedShapes }
              ELSE {})
SerpPairs ==
    UNION { PayloadsOfSize(a) \X PayloadsOfSize(b) :
              << a, b >> \in { ab \in (0..MaxItems) \X (0..MaxItems) :
                                 ab[1] + ab[2] <= MaxItems } }

DecideInit ==
    /\ AdsIdle
    /\ OverlapIdle
    /\ RerunIdle
    /\ GscIdle
    /\ variant \in Variants
    /\ configured = TRUE
    /\ secrets_fetched = NumSecrets
    /\ \E st \in Statuses :
         /\ table = TableOf(<< st >>)
         /\ keywords_data = get_keywords_from_bigquery(variant, TRUE, table).rows
    /\ source_outcome = "rows"
    /\ pc = "analyze"
    /\ idx = 1
    /\ \E pair \in SerpPairs :
         /\ desktop_serp_data = pair[1]
         /\ mobile_serp_data = pair[2]
    /\ analysis = NoAnalysis
    /\ new_status = NoStatus
    /\ all_competitors = {}
    /\ fetches = << << 1, "desktop" >>, << 1, "mobile" >> >>
    /\ sink_calls = <<>>
    /\ response = Running

DecideNext == AnalyzeRecord

DecideSpec == DecideInit /\ [][DecideNext]_vars

(***************************************************************************)
(* Two requests to the sync service whose cycles overlap: the service      *)
(* takes no lock, each cycle reads the table once and then issues its      *)
(* UPDATE jobs one record at a time.                                       *)
(***************************************************************************)
OverlapInit ==
    /\ AdsIdle
    /\ RerunIdle
    /\ GscIdle
    /\ variant = "service"
    /\ configured = TRUE
    /\ secrets_fetched = NumSecrets
    /\ table \in { TableOf(sts) : sts \in Tables }
    /\ source_outcome = "pending"
    /\ keywords_data = << >>
    /\ pc = "off"
    /\ idx = 0
    /\ desktop_serp_data = NullSerp
    /\ mobile_serp_data = NullSerp
    /\ analysis = NoAnalysis
    /\ new_status = NoStatus
    /\ all_competitors = {}
    /\ fetches = << >>
    /\ sink_calls = << >>
    /\ response = Running
    /\ o_pc = [p \in Cycles |-> "start"]
    /\ o_data = [p \in Cycles |-> << >>]
    /\ o_idx = [p \in Cycles |-> 0]
    /\ o_write = [p \in Cycles |-> NoWrite]

OverlapFrame ==
    UNCHANGED << variant, configured, secrets_fetched, source_outcome,
                 keywords_data, pc, idx, desktop_serp_data, mobile_serp_data,
                 analysis, new_status, all_competitors, fetches, sink_calls,
                 response, ads_vars, rerun_vars, gsc_vars >>

\* cycle p reads the table: main() up to the for loop
OverlapBegin(p) ==
    /\ o_pc[p] = "start"
    /\ \E out \in {"client_error", "query_error", "rows"} :
         LET got == get_keywords_from_bigquery("service", out = "rows", table)
         IN  IF out = "client_error" \/ got.is_none \/ got.rows = << >>
             THEN /\ o_pc' = [o_pc EXCEPT ![p] = "done"]
                  /\ UNCHANGED << o_data, o_idx >>
             ELSE /\ o_pc' = [o_pc EXCEPT ![p] = "loop"]
                  /\ o_data' = [o_data EXCEPT ![p] = got.rows]
                  /\ o_idx' = [o_idx EXCEPT ![p] = 1]
    /\ UNCHANGED << table, o_write >>
    /\ OverlapFrame

\* the end of an iteration of cycle p
OverlapAdvance(p) ==
    IF o_idx[p] < Len(o_data[p])
    THEN /\ o_idx' = [o_idx EXCEPT ![p] = o_idx[p] + 1]
         /\ o_pc' = [o_pc EXCEPT ![p] = "loop"]
    ELSE /\ o_pc' = [o_pc EXCEPT ![p] = "done"]
         /\ UNCHANGED o_idx

\* cycle p fetches both results of its record, decides, and submits the
\* UPDATE job of update_keyword_data: client.query(...)
OverlapProcess(p) ==
    /\ o_pc[p] = "loop"
    /\ \E desktop \in CyclePayloads : \E mobile \in CyclePayloads :
         LET row == RowAt(o_data[p], o_idx[p])
             out == AnalyzeOutcome("service", row, desktop, mobile)
         IN  IF out.exc
             THEN /\ o_pc' = [o_pc EXCEPT ![p] = "done"]
                  /\ UNCHANGED << o_idx, o_write >>
             ELSE IF WriteNeeded("service", out.status, row.status)
             THEN /\ o_write' = [o_write EXCEPT ![p] =
                         [keyword |-> row.keyword,
                          new_status |-> out.status,
                          competitor_domains |-> out.competitors,
                          based_on |-> row.status]]
                  /\ o_pc' = [o_pc EXCEPT ![p] = "writing"]
                  /\ UNCHANGED o_idx
             ELSE /\ OverlapAdvance(p)
                  /\ UNCHANGED o_write
    /\ UNCHANGED << table, o_data >>
    /\ OverlapFrame

\* the UPDATE job of cycle p ends: query_job.result()
OverlapWriteDone(p) ==
    /\ o_pc[p] = "writing"
    /\ \E ok \in BOOLEAN :
         table' = IF ok
                  THEN UpdateRows("service", table, o_write[p].keyword,
                                  o_write[p].new_status,
                                  o_write[p].competitor_domains)
                  ELSE table
    /\ o_write' = [o_write EXCEPT ![p] = NoWrite]
    /\ OverlapAdvance(p)
    /\ UNCHANGED o_data
    /\ OverlapFrame

OverlapNext ==
    \/ \E p \in Cycles : OverlapBegin(p)
    \/ \E p \in Cycles : OverlapProcess(p)
    \/ \E p \in Cycles : OverlapWriteDone(p)

OverlapSpec == OverlapInit /\ [][OverlapNext]_vars

(***************************************************************************)
(* The ads push: update_google_ads_keywords of src/main.py ("function")    *)
(* and main_handler of src/changes_to_gads/main.py ("push_service").       *)
(***************************************************************************)
MaxAdsRows == 2

\* src/main.py, src/changes_to_gads/main.py, src/changes_to_gads.py,
\* src/4_dry_run_making_changes_to_GoogleAds_account.py,
\* src/draft_changes_to_gads.py
AdsVariants ==
    {"function", "push_service", "push_script", "dry_run_function", "preview"}
\* the programs that loop over customer groups
GroupedVariants == {"push_service", "push_script"}

\* values of the DRY_RUN environment variable
EnvValues ==
    {EnvUnset} \cup
    { [set |-> TRUE, value |-> v] :
        v \in {"true", "True", "TRUE", "false", "False", "1", ""} }
\* str.lower()
Lower(v) ==
    IF v \in {"True", "TRUE"} THEN "true"
    ELSE IF v = "False" THEN "false"
    ELSE v
\* the default of os.environ.get("DRY_RUN", ...)
DryRunDefaultLive == "False"
DryRunDefault == "True"
\* os.environ.get("DRY_RUN", "True").lower() == "true"
ParseDryRun(env) ==
    Lower(IF env.set THEN env.value ELSE DryRunDefault) = "true"

\* the statuses a criterion has in the ads account
AccountStatuses == {"ENABLED", "PAUSED", "REMOVED"}
Accounts ==
    UNION { [ids -> AccountStatuses] : ids \in SUBSET (1..MaxAdsRows) }
\* customer ids as the table stores them
Customers == {"111", "2-22"}
\* str(customer_id).replace("-", "")
StripDashes(c) == IF c = "2-22" THEN "222" ELSE c
\* the customer id the function reads from its secret
SecretCustomer == "111"
RowStatuses == {"ENABLED", "paused", "REMOVED"}
\* str.upper()
Upper(st) == IF st = "paused" THEN "PAUSED" ELSE st

AdsRow(k, c, st) == [criterion_id |-> k, customer_id |-> c, status |-> st]
AdsTables(cs) == UNION { [1..n -> cs \X RowStatuses] : n \in 0..MaxAdsRows }
AdsTableOf(f) == [k \in 1..Len(f) |-> AdsRow(k, f[k][1], f[k][2])]

\* the sync programs are not running
SyncIdle ==
    /\ variant = "service"
    /\ configured = TRUE
    /\ secrets_fetched = NumSecrets
    /\ table = << >>
    /\ source_outcome = "pending"
    /\ keywords_data = << >>
    /\ pc = "off"
    /\ idx = 0
    /\ desktop_serp_data = NullSerp
    /\ mobile_serp_data = NullSerp
    /\ analysis = NoAnalysis
    /\ new_status = NoStatus
    /\ all_competitors = {}
    /\ fetches = << >>
    /\ sink_calls = << >>
    /\ response = Running

AdsInit ==
    /\ SyncIdle
    /\ OverlapIdle
    /\ RerunIdle
    /\ GscIdle
    /\ ads_variant \in AdsVariants
    /\ ads_configured \in BOOLEAN
    /\ env_dry_run \in IF ads_variant = "push_service" THEN EnvValues
                       ELSE {EnvUnset}
    /\ dry_run \in IF ads_variant = "push_service"
                   THEN {ParseDryRun(env_dry_run)}
                   ELSE IF ads_variant = "push_script" THEN BOOLEAN
                   ELSE IF ads_variant = "function" THEN {FALSE}
                   ELSE {TRUE}
    /\ ads_rows \in { AdsTableOf(f) :
                       f \in AdsTables(IF ads_variant \in GroupedVariants
                                       THEN Customers ELSE {SecretCustomer}) }
    /\ account_keywords \in IF ads_variant = "preview" THEN Accounts
                            ELSE { << >> }
    /\ ads_pc = "start"
    /\ customers_left = << >>
    /\ mutate_calls = << >>
    /\ applied = {}
    /\ history = << >>
    /\ successful_count = NoCount
    /\ ads_response = Running
    /\ prepared_log = << >>
    /\ update_count = NoCount
    /\ warned = {}

NoKeywordData ==
    [code |-> 200, body |-> "No keyword data found in BigQuery to process."]
PushComplete == [code |-> 200, body |-> "Processing complete."]

AdsFinish(r) ==
    /\ ads_pc' = "done"
    /\ ads_response' = r

\* keywords_df.groupby('customer_id'): the groups in the order of their keys
GroupKeys(rows) ==
    SelectSeq(<< "111", "2-22" >>,
              LAMBDA c : \E k \in 1..Len(rows) : rows[k].customer_id = c)
GroupOf(rows, c) == SelectSeq(rows, LAMBDA r : r.customer_id = c)

\* the rows that pass the status test of the build loop
ValidRows(rows) ==
    SelectSeq(rows, LAMBDA r : Upper(r.status) \in {"ENABLED", "PAUSED"})
Operation(customer, r) ==
    [customer_id |-> customer, criterion_id |-> r.criterion_id,
     status |-> Upper(r.status)]
Operations(customer, rows) ==
    [k \in 1..Len(ValidRows(rows)) |-> Operation(customer, ValidRows(rows)[k])]
\* "outcome": None
NoOutcome == ""
HistoryLog(customer, r, outcome) ==
    [customer_id |-> customer, criterion_id |-> r.criterion_id,
     previous_status |-> r.status, new_status |-> Upper(r.status),
     outcome |-> outcome]
\* for log_row in history_rows_to_log: log_row["outcome"] = outcome
WithOutcome(rows, outcome) ==
    [k \in 1..Len(rows) |-> [rows[k] EXCEPT !.outcome = outcome]]
\* the build loop appending history_log ahead of the status test
HistoryRowsAll(customer, rows, outcome) ==
    WithOutcome([k \in 1..Len(rows) |->
                    HistoryLog(customer, rows[k], NoOutcome)], outcome)
\* history_rows_to_log of the valid rows, then the outcome of the branch taken
HistoryRows(customer, rows, outcome) ==
    WithOutcome([k \in 1..Len(ValidRows(rows)) |->
                    HistoryLog(customer, ValidRows(rows)[k], NoOutcome)],
                outcome)

\* if DRY_RUN: ... else: the request is sent
SendsRequestAlways(dry) == TRUE
SendsRequest(dry) == ~dry

\* how a request as a whole may end, whatever its operations
RequestOutcomes == {"ok", "ads_exception", "other_exception"}

\* mutate_ad_group_criteria: with partial_failure the platform commits the
\* operations it accepts and returns an empty result for each one it
\* rejects; without it one rejected operation fails the whole request with a
\* GoogleAdsException and nothing is committed
MutateResult(operations, rejected, request, partial_failure) ==
    IF request # "ok"
    THEN [raised |-> request, committed |-> {}]
    ELSE IF partial_failure
    THEN [raised |-> "no",
          committed |-> { operations[k] :
                            k \in (1..Len(operations)) \ rejected }]
    ELSE IF rejected = {}
    THEN [raised |-> "no",
          committed |-> { operations[k] : k \in 1..Len(operations) }]
    ELSE [raised |-> "ads_exception", committed |-> {}]

MutateCall(customer, operations, rejected, request, partial_failure) ==
    [customer_id |-> customer, operations |-> operations,
     rejected |-> rejected, request |-> request,
     partial_failure |-> partial_failure]

\* sys.exit(1) of the preview script
ExitOne == [code |-> 1, body |-> "sys.exit(1)"]

\* the rows the preview script selects: WHERE status IN ('ENABLED', 'PAUSED')
DesiredRows(rows) ==
    SelectSeq(rows, LAMBDA r : r.status \in {"ENABLED", "PAUSED"})
\* {row.criterion_id: row.status for row in query_job}
DesiredStatuses(rows) ==
    [id \in { DesiredRows(rows)[k].criterion_id :
                k \in 1..Len(DesiredRows(rows)) } |->
        LET last == CHOOSE k \in 1..Len(DesiredRows(rows)) :
                      /\ DesiredRows(rows)[k].criterion_id = id
                      /\ \A j \in (k + 1)..Len(DesiredRows(rows)) :
                           DesiredRows(rows)[j].criterion_id # id
        IN  DesiredRows(rows)[last].status]

\* the loop of report_on_planned_changes counting every desired id
ReportLoopCountingAbsent(desired, account) ==
    [count  |-> Cardinality({ id \in DOMAIN desired :
                                id \notin DOMAIN account
                                \/ desired[id] # account[id] }),
     warned |-> DOMAIN desired \ DOMAIN account]
\* report_on_planned_changes: update_count and the ids warned about
ReportLoop(desired, account) ==
    [count  |-> Cardinality({ id \in DOMAIN desired :
                                /\ id \in DOMAIN account
                                /\ desired[id] # account[id] }),
     warned |-> DOMAIN desired \ DOMAIN account]

\* the handler up to the push: credentials, source query, tests on its result
AdsBegin ==
    /\ ads_pc = "start"
    /\ IF ads_variant \in {"function", "dry_run_function"}
       THEN IF ~ads_configured
            THEN /\ AdsFinish(ReturnedNone)
                 /\ UNCHANGED customers_left
            ELSE \E out \in {"client_error", "query_error", "rows"} :
                   IF out = "client_error"
                   THEN /\ AdsFinish(ReturnedNone)
                        /\ UNCHANGED customers_left
                   ELSE IF out = "query_error"
                   THEN /\ AdsFinish(Uncaught("script"))
                        /\ UNCHANGED customers_left
                   ELSE IF ads_rows = << >>
                   THEN /\ AdsFinish(ReturnedNone)
                        /\ UNCHANGED customers_left
                   ELSE /\ customers_left' = << SecretCustomer >>
                        /\ ads_pc' = "push"
                        /\ UNCHANGED ads_response
       ELSE IF ads_variant = "push_script"
       THEN IF ~ads_configured
            THEN /\ AdsFinish(ReturnedNone)
                 /\ UNCHANGED customers_left
            ELSE \E out \in {"query_error", "rows"} :
                   IF out = "query_error" \/ ads_rows = << >>
                   THEN /\ AdsFinish(ReturnedNone)
                        /\ UNCHANGED customers_left
                   ELSE /\ customers_left' = GroupKeys(ads_rows)
                        /\ ads_pc' = "push"
                        /\ UNCHANGED ads_response
       ELSE IF ads_variant = "preview"
       THEN IF ~ads_configured
            THEN /\ AdsFinish(Uncaught("script"))
                 /\ UNCHANGED customers_left
            ELSE \E out \in {"query_error", "rows"} :
                   IF out = "query_error"
                   THEN /\ AdsFinish(ExitOne)
                        /\ UNCHANGED customers_left
                   ELSE IF DOMAIN DesiredStatuses(ads_rows) = {}
                   THEN /\ AdsFinish(ReturnedNone)
                        /\ UNCHANGED customers_left
                   ELSE /\ customers_left' = << SecretCustomer >>
                        /\ ads_pc' = "push"
                        /\ UNCHANGED ads_response
       ELSE /\ ads_configured
            /\ \E out \in {"query_error", "rows"} :
                 IF out = "query_error"
                 THEN /\ AdsFinish(SourceError)
                      /\ UNCHANGED customers_left
                 ELSE IF ads_rows = << >>
                 THEN /\ AdsFinish(NoKeywordData)
                      /\ UNCHANGED customers_left
                 ELSE /\ customers_left' = GroupKeys(ads_rows)
                      /\ ads_pc' = "push"
                      /\ UNCHANGED ads_response
    /\ UNCHANGED << ads_variant, ads_configured, dry_run, ads_rows,
                    mutate_calls, applied, history, successful_count,
                    env_dry_run, prepared_log, preview_vars >>
    /\ UNCHANGED << sync_vars, overlap_vars, rerun_vars, gsc_vars >>

\* src/main.py, steps 4 and 5: build the operations of all rows, send them in
\* one request with partial_failure=True, count the results that carry a
\* resource name
FunctionPush ==
    /\ ads_pc = "push"
    /\ ads_variant = "function"
    /\ LET customer == Head(customers_left)
           operations == Operations(customer, ads_rows)
       IN  \E rejected \in SUBSET (1..Len(operations)) :
           \E request \in RequestOutcomes :
             LET res == MutateResult(operations, rejected, request, TRUE) IN
             /\ mutate_calls' = Append(mutate_calls,
                    MutateCall(customer, operations, rejected, request, TRUE))
             /\ applied' = applied \cup res.committed
             /\ IF res.raised = "other_exception"
                THEN /\ AdsFinish(Uncaught("script"))
                     /\ UNCHANGED successful_count
                ELSE /\ AdsFinish(ReturnedNone)
                     /\ successful_count' =
                          IF res.raised = "no"
                          THEN Cardinality(res.committed)
                          ELSE successful_count
    /\ customers_left' = Tail(customers_left)
    /\ UNCHANGED << ads_variant, ads_configured, dry_run, ads_rows, history,
                    env_dry_run, prepared_log, preview_vars >>
    /\ UNCHANGED << sync_vars, overlap_vars, rerun_vars, gsc_vars >>

\* src/4_dry_run_making_changes_to_GoogleAds_account.py, steps 4 and 5: build
\* the operations, print how many there are and the first of them
DryRunFunctionPush ==
    /\ ads_pc = "push"
    /\ ads_variant = "dry_run_function"
    /\ successful_count' =
         Len(Operations(Head(customers_left), ads_rows))
    /\ customers_left' = Tail(customers_left)
    /\ AdsFinish(ReturnedNone)
    /\ UNCHANGED << ads_variant, ads_configured, dry_run, ads_rows, history,
                    mutate_calls, applied, env_dry_run, prepared_log,
                    preview_vars >>
    /\ UNCHANGED << sync_vars, overlap_vars, rerun_vars, gsc_vars >>

\* src/changes_to_gads/main.py: one turn of the loop over the customer
\* groups, that is one call of update_keyword_statuses_in_google_ads
ServicePush ==
    /\ ads_pc = "push"
    /\ ads_variant = "push_service"
    /\ LET group == GroupOf(ads_rows, Head(customers_left))
           customer == StripDashes(Head(customers_left))
           operations == Operations(customer, group)
           go_on == /\ customers_left' = Tail(customers_left)
                    /\ IF Tail(customers_left) = << >>
                       THEN AdsFinish(PushComplete)
                       ELSE UNCHANGED << ads_pc, ads_response >>
       IN  /\ prepared_log' = prepared_log \o operations
           /\ IF operations = << >>
              THEN /\ go_on
                   /\ UNCHANGED << mutate_calls, applied, history >>
              ELSE IF ~SendsRequest(dry_run)
              THEN /\ history' = history \o HistoryRows(customer, group, "INFO")
                   /\ go_on
                   /\ UNCHANGED << mutate_calls, applied >>
              ELSE \E rejected \in SUBSET (1..Len(operations)) :
                   \E request \in RequestOutcomes :
                     LET res == MutateResult(operations, rejected, request,
                                             FALSE)
                     IN  /\ mutate_calls' = Append(mutate_calls,
                                MutateCall(customer, operations, rejected,
                                           request, FALSE))
                         /\ applied' = applied \cup res.committed
                         /\ IF res.raised = "other_exception"
                            THEN /\ AdsFinish(Uncaught("service"))
                                 /\ customers_left' = Tail(customers_left)
                                 /\ UNCHANGED history
                            ELSE /\ history' = history \o
                                      HistoryRows(customer, group,
                                          IF res.raised = "no" THEN "SUCCESS"
                                          ELSE "FAILURE")
                                 /\ go_on
    /\ UNCHANGED << ads_variant, ads_configured, dry_run, ads_rows,
                    successful_count, env_dry_run, preview_vars >>
    /\ UNCHANGED << sync_vars, overlap_vars, rerun_vars, gsc_vars >>

\* src/changes_to_gads.py: one turn of the loop over the customer groups;
\* the whole call runs in a try that catches every exception
ScriptPush ==
    /\ ads_pc = "push"
    /\ ads_variant = "push_script"
    /\ LET group == GroupOf(ads_rows, Head(customers_left))
           customer == StripDashes(Head(customers_left))
           operations == Operations(customer, group)
       IN  IF operations = << >> \/ ~SendsRequest(dry_run)
           THEN UNCHANGED << mutate_calls, applied >>
           ELSE \E rejected \in SUBSET (1..Len(operations)) :
                \E request \in RequestOutcomes :
                  /\ mutate_calls' = Append(mutate_calls,
                         MutateCall(customer, operations, rejected,
                                    request, FALSE))
                  /\ applied' = applied \cup
                         MutateResult(operations, rejected, request,
                                      FALSE).committed
    /\ customers_left' = Tail(customers_left)
    /\ IF Tail(customers_left) = << >>
       THEN AdsFinish(ReturnedNone)
       ELSE UNCHANGED << ads_pc, ads_response >>
    /\ UNCHANGED << ads_variant, ads_configured, dry_run, ads_rows, history,
                    successful_count, env_dry_run, prepared_log,
                    preview_vars >>
    /\ UNCHANGED << sync_vars, overlap_vars, rerun_vars, gsc_vars >>

\* src/draft_changes_to_gads.py, main from step 2: read the account with
\* search_stream, compare, print the summary
PreviewReport ==
    /\ ads_pc = "push"
    /\ ads_variant = "preview"
    /\ \E out \in {"search_error", "keywords"} :
         IF out = "search_error"
         THEN /\ AdsFinish(Uncaught("script"))
              /\ UNCHANGED << update_count, warned >>
         ELSE IF DOMAIN account_keywords = {}
         THEN /\ AdsFinish(ReturnedNone)
              /\ UNCHANGED << update_count, warned >>
         ELSE LET report == ReportLoop(DesiredStatuses(ads_rows),
                                       account_keywords)
              IN  /\ update_count' = report.count
                  /\ warned' = report.warned
                  /\ AdsFinish(ReturnedNone)
    /\ customers_left' = Tail(customers_left)
    /\ UNCHANGED << ads_variant, ads_configured, dry_run, ads_rows, history,
                    successful_count, mutate_calls, applied, env_dry_run,
                    prepared_log, account_keywords >>
    /\ UNCHANGED << sync_vars, overlap_vars, rerun_vars, gsc_vars >>

AdsNext ==
    \/ AdsBegin
    \/ FunctionPush
    \/ DryRunFunctionPush
    \/ ServicePush
    \/ ScriptPush
    \/ PreviewReport

AdsSpec == AdsInit /\ [][AdsNext]_vars

(***************************************************************************)
(* What the specification says of a SERP result, stated on the items.      *)
(***************************************************************************)
\* an absent or malformed result counts as a result with zero items
ItemsOf(serp_data) ==
    IF serp_data.shape = "ok" THEN serp_data.items ELSE <<>>

\* a paid item, or a nested ad entry of an "ads" item, carries a domain
\* attribute different from the advertiser's domain
CompetitorAdPresent(serp_data, domain) ==
    \E k \in 1..Len(ItemsOf(serp_data)) :
        LET item == ItemsOf(serp_data)[k] IN
        \/ item.type = "paid" /\ item.domain # NoDomain /\ item.domain # domain
        \/ /\ item.type = "ads"
           /\ \E j \in 1..Len(item.ads) :
                item.ads[j] # NoDomain /\ item.ads[j] # domain

IsRankOneOrganic(item) == item.type = "organic" /\ item.rank_absolute = 1

\* the rank-1 organic item (the first one of the sequence) has the domain
RankOneIsMine(serp_data, domain) ==
    \E k \in 1..Len(ItemsOf(serp_data)) :
        /\ IsRankOneOrganic(ItemsOf(serp_data)[k])
        /\ ItemsOf(serp_data)[k].domain = domain
        /\ \A j \in 1..(k - 1) : ~IsRankOneOrganic(ItemsOf(serp_data)[j])

\* no organic rank-1 item of the sequence has the domain
NoRankOneOfMine(serp_data, domain) ==
    \A k \in 1..Len(ItemsOf(serp_data)) :
        ~(IsRankOneOrganic(ItemsOf(serp_data)[k])
          /\ ItemsOf(serp_data)[k].domain = domain)

AtMostOneRankOne(serp_data) ==
    Cardinality({ k \in 1..Len(ItemsOf(serp_data)) :
                    IsRankOneOrganic(ItemsOf(serp_data)[k]) }) <= 1

CurrentRow == keywords_data[idx]
Decided == pc = "decided"
RecognizedStatus(st) == st \in {"ENABLED", "PAUSED"}

(***************************************************************************)
(* Claims C1 - C10.                                                        *)
(***************************************************************************)

\* C1: priority rule - whenever a competitor ad (a rival's paid item or nested
\* ad entry) is present on at least one device of a record whose stored status
\* is ENABLED or PAUSED, the decided status is ENABLED.
C1_PriorityRule ==
    ( /\ Decided
      /\ RecognizedStatus(CurrentRow.status)
      /\ \/ CompetitorAdPresent(desktop_serp_data, CurrentRow.domain_url)
         \/ CompetitorAdPresent(mobile_serp_data, CurrentRow.domain_url) )
    => new_status = "ENABLED"

\* C2: pause rule - when no device shows a competitor ad and the advertiser's
\* domain is the rank-1 organic result on desktop and on mobile, the decided
\* status is PAUSED.
C2_PauseRule ==
    ( /\ Decided
      /\ ~CompetitorAdPresent(desktop_serp_data, CurrentRow.domain_url)
      /\ ~CompetitorAdPresent(mobile_serp_data, CurrentRow.domain_url)
      /\ RankOneIsMine(desktop_serp_data, CurrentRow.domain_url)
      /\ RankOneIsMine(mobile_serp_data, CurrentRow.domain_url) )
    => new_status = "PAUSED"

\* C2 witness: an ENABLED record of the service, the advertiser's own ad and
\* its rank-1 listing on desktop, its rank-1 listing on mobile, decided PAUSED.
C2_Witness ==
    /\ Decided
    /\ variant = "service"
    /\ CurrentRow.status = "ENABLED"
    /\ Len(ItemsOf(desktop_serp_data)) = 2
    /\ ~CompetitorAdPresent(desktop_serp_data, CurrentRow.domain_url)
    /\ ~CompetitorAdPresent(mobile_serp_data, CurrentRow.domain_url)
    /\ RankOneIsMine(desktop_serp_data, CurrentRow.domain_url)
    /\ RankOneIsMine(mobile_serp_data, CurrentRow.domain_url)
    /\ desktop_serp_data.items[1] = AdsBlock(<< MyDomain >>)
    /\ new_status = "PAUSED"

\* C3: default rule - when no device shows a competitor ad and at least one
\* device has no rank-1 organic item of the advertiser's domain, the decided
\* status of a record stored as ENABLED or PAUSED is ENABLED.
C3_DefaultRule ==
    ( /\ Decided
      /\ RecognizedStatus(CurrentRow.status)
      /\ ~CompetitorAdPresent(desktop_serp_data, CurrentRow.domain_url)
      /\ ~CompetitorAdPresent(mobile_serp_data, CurrentRow.domain_url)
      /\ \/ NoRankOneOfMine(desktop_serp_data, CurrentRow.domain_url)
         \/ NoRankOneOfMine(mobile_serp_data, CurrentRow.domain_url) )
    => new_status = "ENABLED"

\* the status the source returned for the record a sink call was made for
StatusRead(call) == keywords_data[call.keyword].status
SinkCallsOf(k) ==
    { n \in 1..Len(sink_calls) : sink_calls[n].keyword = k }

\* C4: the sink is called for a record only when the decided status differs
\* from the record's current status.
C4_WriteOnlyOnChange ==
    \A n \in 1..Len(sink_calls) :
        sink_calls[n].new_status # StatusRead(sink_calls[n])

\* C5: a record whose current status is neither ENABLED nor PAUSED (the value
\* UNKNOWN) is skipped: the sink is never called for it and its stored status
\* is not overwritten.
C5_UnrecognizedSkipped ==
    \A k \in 1..Len(keywords_data) :
        keywords_data[k].status = "UNKNOWN"
        => /\ SinkCallsOf(keywords_data[k].keyword) = {}
           /\ table[k].status = "UNKNOWN"

\* C6: in a cycle whose source read succeeded, once main() has returned every
\* record of the source has had its desktop and then its mobile fetch,
\* whatever the fetches and sink writes of the earlier records gave.
C6_FailuresIsolated ==
    (pc = "done" /\ source_outcome = "rows")
    => \A k \in 1..Len(keywords_data) :
         \E n \in 1..Len(fetches), m \in 1..Len(fetches) :
             /\ n < m
             /\ fetches[n] = << keywords_data[k].keyword, "desktop" >>
             /\ fetches[m] = << keywords_data[k].keyword, "mobile" >>

\* the outcome main() gives for a successful source read of zero records
EmptyOutcome(v) == IF v = "script" THEN ReturnedNone ELSE NoKeywords
IsFailure(r) == r.code \notin {0, 200}

\* C7: a cycle whose source read fails ends with a failure outcome that differs
\* from the empty-result outcome, and issues no fetch and no sink write; a
\* cycle whose source read returns zero records ends with a non-error outcome
\* and issues no fetch and no sink write.
C7_SourceFailureHalts ==
    /\ source_outcome = "query_error"
       => /\ pc = "done"
          /\ IsFailure(response)
          /\ response # EmptyOutcome(variant)
          /\ fetches = <<>>
          /\ sink_calls = <<>>
    /\ (source_outcome = "rows" /\ table = <<>>)
       => /\ pc = "done"
          /\ ~IsFailure(response)
          /\ fetches = <<>>
          /\ sink_calls = <<>>

\* C8: for each device, an absent or malformed SERP result never raises and
\* yields has_competitor_ad = false and is_ranked_one = false.
C8_MalformedIsEmpty ==
    pc # "analyze"
    => /\ desktop_serp_data.shape # "ok"
          => /\ Decided
             /\ ~analysis.desktop_has_competitor_ad
             /\ ~analysis.desktop_is_ranked_one
       /\ mobile_serp_data.shape # "ok"
          => /\ Decided
             /\ ~analysis.mobile_has_competitor_ad
             /\ ~analysis.mobile_is_ranked_one

\* C9: has_competitor_ad is true exactly when some paid item, or some nested
\* ad entry of an "ads" item, carries a domain other than the advertiser's.
C9_CompetitorAdExact ==
    Decided
    => /\ analysis.desktop_has_competitor_ad
            = CompetitorAdPresent(desktop_serp_data, CurrentRow.domain_url)
       /\ analysis.mobile_has_competitor_ad
            = CompetitorAdPresent(mobile_serp_data, CurrentRow.domain_url)

OwnOrganic(items, domain) ==
    { k \in 1..Len(items) :
        items[k].type = "organic" /\ items[k].domain = domain }

\* the advertiser's own organic rank, read as its best listing: the lowest
\* rank_absolute among its organic items, infinite when it has none
BestOwnRank(items, domain) ==
    IF OwnOrganic(items, domain) = {} THEN Infinity
    ELSE CHOOSE r \in { items[k].rank_absolute : k \in OwnOrganic(items, domain) } :
           \A k \in OwnOrganic(items, domain) : r <= items[k].rank_absolute

\* the advertiser's own organic rank, read as its first listing in the order
\* of the item sequence, infinite when it has none
FirstOwnRank(items, domain) ==
    IF OwnOrganic(items, domain) = {} THEN Infinity
    ELSE items[CHOOSE k \in OwnOrganic(items, domain) :
                 \A j \in OwnOrganic(items, domain) : k <= j].rank_absolute

\* the domains other than the advertiser's that belong to a paid item or to
\* an organic item ranked strictly above own_rank
OutrankingDomains(serp_data, domain, own_rank) ==
    { d \in { ItemsOf(serp_data)[k].domain : k \in 1..Len(ItemsOf(serp_data)) } :
        /\ d # NoDomain
        /\ d # domain
        /\ \E k \in 1..Len(ItemsOf(serp_data)) :
             LET item == ItemsOf(serp_data)[k] IN
             /\ item.domain = d
             /\ \/ item.type = "paid"
                \/ item.type = "organic" /\ item.rank_absolute < own_rank }

\* the service has decided a status and built the competitor report
Reported == Decided /\ variant = "service" /\ new_status # NoStatus

\* C11: for every SERP result and advertiser domain the set returned by
\* extract_competitor_domains, and so the combined desktop and mobile list
\* handed to the sink, never contains the advertiser's own domain.
C11_OwnDomainExcluded ==
    Decided
    => /\ CurrentRow.domain_url \notin all_competitors
       /\ \A serp_data \in {desktop_serp_data, mobile_serp_data} :
            LET got == extract_competitor_domains(serp_data,
                                                  CurrentRow.domain_url)
            IN  ~got.exc => CurrentRow.domain_url \notin got.val

\* C11 witness: the advertiser's domain stands in a paid item and in an
\* organic item of the desktop result, next to a competitor, and the report
\* holds the competitor only.
C11_Witness ==
    /\ Reported
    /\ desktop_serp_data
         = OkSerp(<< Paid(MyDomain), Organic(MyDomain, 2),
                     Organic(RivalDomain, 1) >>)
    /\ all_competitors = {RivalDomain}

\* C12 as stated, the advertiser's own organic rank being its best listing:
\* the report is exactly the domains other than the advertiser's that belong
\* to a paid item or to an organic item ranked strictly above that rank.
C12_ExactSetBestRank ==
    Reported
    => all_competitors
         = OutrankingDomains(desktop_serp_data, CurrentRow.domain_url,
               BestOwnRank(ItemsOf(desktop_serp_data), CurrentRow.domain_url))
           \cup
           OutrankingDomains(mobile_serp_data, CurrentRow.domain_url,
               BestOwnRank(ItemsOf(mobile_serp_data), CurrentRow.domain_url))

\* C12 amended: extract_competitor_domains returns exactly the domains other
\* than the advertiser's that belong to a paid item or to an organic item
\* whose rank_absolute is strictly lower than the rank_absolute of the first
\* organic item of the advertiser's domain in the item sequence, that rank
\* being infinite when the domain has no organic item.
C12_ExactSetFirstRank ==
    Reported
    => all_competitors
         = OutrankingDomains(desktop_serp_data, CurrentRow.domain_url,
               FirstOwnRank(ItemsOf(desktop_serp_data), CurrentRow.domain_url))
           \cup
           OutrankingDomains(mobile_serp_data, CurrentRow.domain_url,
               FirstOwnRank(ItemsOf(mobile_serp_data), CurrentRow.domain_url))

\* C12 witness: the advertiser is listed at rank 2 and, later in the
\* sequence, at rank 1; the competitor at rank 1 is reported.
C12_Witness ==
    /\ Reported
    /\ desktop_serp_data
         = OkSerp(<< Organic(MyDomain, 2), Organic(RivalDomain, 1),
                     Organic(MyDomain, 1) >>)
    /\ mobile_serp_data = OkSerp(<< >>)
    /\ all_competitors = {RivalDomain}

\* C13: two-value invariant: in every cycle and for any source data, every
\* status value handed to the warehouse sink is ENABLED or PAUSED; a third
\* value of the source data is never applied.
C13_TwoValuesOnly ==
    \A n \in 1..Len(sink_calls) : RecognizedStatus(sink_calls[n].new_status)

\* the source query of this cycle was sent to the warehouse
SourceQueryIssued == source_outcome \in {"query_error", "rows"}

\* C14: a configuration error is fatal before any processing: when a
\* required secret could not be obtained at start-up, a triggered cycle
\* issues no source query, no SERP fetch and no sink write.
C14_ConfigErrorFatal ==
    (variant = "service" /\ secrets_fetched < NumSecrets)
    => /\ ~SourceQueryIssued
       /\ fetches = << >>
       /\ sink_calls = << >>

\* C15: records are processed strictly in the order the source returned
\* them: the loop never steps back, every fetch is issued for the record
\* the loop stands on, and a sink write is issued for that same record once
\* both of its fetches are done, so both fetches, the decision and any sink
\* write of record i come before the first fetch of record i+1.
C15_SourceOrder ==
    [][ /\ idx' >= idx
        /\ fetches' # fetches
           => /\ Len(fetches') = Len(fetches) + 1
              /\ SubSeq(fetches', 1, Len(fetches)) = fetches
              /\ fetches'[Len(fetches')][1] = keywords_data[idx].keyword
              /\ Len(fetches') \in {2 * idx - 1, 2 * idx}
        /\ sink_calls' # sink_calls
           => /\ Len(sink_calls') = Len(sink_calls) + 1
              /\ SubSeq(sink_calls', 1, Len(sink_calls)) = sink_calls
              /\ sink_calls'[Len(sink_calls')].keyword
                   = keywords_data[idx].keyword
              /\ pc = "decided"
              /\ Len(fetches) = 2 * idx ]_vars

\* C15 witness: record 1 has been fetched twice, decided and written, and
\* the loop stands before the first fetch of record 2.
C15_Witness ==
    /\ pc = "fetch_desktop"
    /\ idx = 2
    /\ fetches = << << keywords_data[1].keyword, "desktop" >>,
                    << keywords_data[1].keyword, "mobile" >> >>
    /\ Len(sink_calls) = 1
    /\ sink_calls[1].keyword = keywords_data[1].keyword

\* the positions of the log where the fetch (keyword, device) was issued
FetchesOf(keyword, device) ==
    { n \in 1..Len(fetches) : fetches[n] = << keyword, device >> }

C17_OnlyOwnRow ==
    [][ /\ Len(table') = Len(table)
        /\ \A k \in 1..Len(table) :
             table'[k] # table[k]
             => /\ pc = "decided"
                /\ table[k].keyword = keywords_data[idx].keyword
                /\ Len(sink_calls') = Len(sink_calls) + 1
                /\ sink_calls'[Len(sink_calls')].keyword = table[k].keyword
                /\ sink_calls'[Len(sink_calls')].ok ]_vars

\* C17 witness: the write of record 1 changed the stored status of row 1
\* and row 2 still holds what the source query read.
C17_Witness ==
    /\ Len(table) = 2
    /\ pc = "fetch_desktop"
    /\ idx = 2
    /\ Len(sink_calls) = 1
    /\ sink_calls[1].ok
    /\ table[1].status = sink_calls[1].new_status
    /\ table[1].status # keywords_data[1].status
    /\ table[2].status = keywords_data[2].status
    /\ table[2].status # table[1].status
    /\ table[2].competitor_domains = {}

\* a fetch of the record the loop stands on returned nothing
FetchFailed == desktop_serp_data = NullSerp \/ mobile_serp_data = NullSerp

\* C19: when the SERP fetch returned nothing for at least one device of a
\* record, the step that ends that record's iteration never changes a
\* stored status to PAUSED.
C19_NoPauseOnFailedFetch ==
    [][ (pc = "decided" /\ FetchFailed)
        => \A k \in 1..Len(table) :
             table'[k].status = "PAUSED" => table[k].status = "PAUSED" ]_vars

\* C19 witness: the desktop fetch of a PAUSED record returned nothing, the
\* mobile result ranks the advertiser first, and ENABLED was decided.
C19_Witness ==
    /\ pc = "decided"
    /\ desktop_serp_data = NullSerp
    /\ mobile_serp_data = OkSerp(<< Organic(MyDomain, 1) >>)
    /\ analysis.mobile_is_ranked_one
    /\ CurrentRow.status = "PAUSED"
    /\ table[idx].status = "PAUSED"
    /\ new_status = "ENABLED"

\* the history rows of an operation of the request
HistoryOf(op) ==
    { n \in 1..Len(history) :
        /\ history[n].customer_id = op.customer_id
        /\ history[n].criterion_id = op.criterion_id }

\* C20: the ads push tolerates partial failure: when the platform rejects
\* some operations of a request it has received, every other operation of
\* that request is applied and recorded as successful (a SUCCESS history
\* row, or counted in the printed total), and only the rejected ones are
\* recorded as failed.
C20_PartialFailureTolerated ==
    \A n \in 1..Len(mutate_calls) :
        LET call == mutate_calls[n] IN
        (call.request = "ok" /\ call.rejected # {})
        => /\ \A k \in (1..Len(call.operations)) \ call.rejected :
                /\ call.operations[k] \in applied
                /\ call.partial_failure
                   \/ \E h \in HistoryOf(call.operations[k]) :
                        history[h].outcome = "SUCCESS"
           /\ call.partial_failure
              => successful_count
                   = Len(call.operations) - Cardinality(call.rejected)
           /\ ~call.partial_failure
              => \A k \in call.rejected :
                   \E h \in HistoryOf(call.operations[k]) :
                     history[h].outcome = "FAILURE"

\* the UPDATE job of cycle p is in flight
InFlight(p) == o_pc[p] = "writing"

\* C18: sink writes are serialized per keyword: no two sink writes for the
\* same keyword are in flight together, also when two cycles of the service
\* overlap, and no write in flight is based on a status that differs from
\* the one now stored for its keyword.
C18_WritesSerialized ==
    /\ \A p \in Cycles : \A q \in Cycles :
         (p # q /\ InFlight(p) /\ InFlight(q))
         => o_write[p].keyword # o_write[q].keyword
    /\ \A p \in Cycles :
         InFlight(p)
         => \A k \in 1..Len(table) :
              table[k].keyword = o_write[p].keyword
              => table[k].status = o_write[p].based_on

(***************************************************************************)
(* Claims C21 - C30.                                                       *)
(***************************************************************************)
OtherVariant(v) == IF v = "script" THEN "service" ELSE "script"

\* the status stored for the record once its iteration has ended with every
\* sink write successful
StoredAfter(v, status, current_status) ==
    IF WriteNeeded(v, status, current_status) THEN status ELSE current_status

\* C23: the two sync-loop variants are the same loop: for the same source
\* row and the same pair of SERP responses, the variant that ran and the
\* other variant leave the same stored status for the keyword.
C23_VariantsAgree ==
    Decided
    => LET other == AnalyzeOutcome(OtherVariant(variant), CurrentRow,
                                   desktop_serp_data, mobile_serp_data)
       IN  ~other.exc
           => StoredAfter(variant, new_status, CurrentRow.status)
                = StoredAfter(OtherVariant(variant), other.status,
                              CurrentRow.status)

\* the domains of the nested ad entries of a result that are not the
\* advertiser's: the competitor ads check_for_competitor_ads looks for
NestedAdDomains(serp_data, domain) ==
    { d \in { RivalDomain, MyDomain } :
        /\ d # domain
        /\ \E k \in 1..Len(ItemsOf(serp_data)) :
             LET item == ItemsOf(serp_data)[k] IN
             /\ item.type = "ads"
             /\ \E j \in 1..Len(item.ads) : item.ads[j] = d }

\* C25: the status decision and the competitor report agree: whenever
\* has_competitor_ad is true for a device of a record, the competitor list
\* handed to the sink for that record holds the domain of at least one
\* competitor ad found on that device.
C25_ReportHoldsAdDomain ==
    Reported
    => /\ analysis.desktop_has_competitor_ad
          => NestedAdDomains(desktop_serp_data, CurrentRow.domain_url)
               \cap all_competitors # {}
       /\ analysis.mobile_has_competitor_ad
          => NestedAdDomains(mobile_serp_data, CurrentRow.domain_url)
               \cap all_competitors # {}

\* C26: the ads push sends a mutate request only when at least one valid
\* operation was prepared.
C26_NoEmptyRequest ==
    \A n \in 1..Len(mutate_calls) : mutate_calls[n].operations # << >>

\* C21: in dry-run mode (DRY_RUN true in the push service and the push
\* script, the dry-run function, the preview script) no mutate request is
\* ever sent to the ads platform and nothing is applied; the operations are
\* only prepared and reported.
C21_DryRunSendsNothing ==
    dry_run => /\ mutate_calls = << >>
               /\ applied = {}

\* a dry run of the service that prepared operations and reported them
C21_Witness ==
    /\ ads_variant = "push_service"
    /\ dry_run
    /\ ads_pc = "done"
    /\ prepared_log # << >>
    /\ \E n \in 1..Len(history) : history[n].outcome = "INFO"

\* the ids that are in both maps with different statuses
Differing(desired, account) ==
    { id \in DOMAIN desired \cap DOMAIN account : desired[id] # account[id] }

\* C22: report_on_planned_changes returns exactly the number of criterion
\* ids that are in both the desired-status map and the account map with
\* different statuses; the ids absent from the account are warned about and
\* not counted, and neither map is modified.
C22_CountsDifferingOnly ==
    [][ (ads_variant = "preview" /\ update_count' # NoCount)
        => /\ update_count' =
                Cardinality(Differing(DesiredStatuses(ads_rows),
                                      account_keywords))
           /\ warned' = DOMAIN DesiredStatuses(ads_rows)
                          \ DOMAIN account_keywords
           /\ ads_rows' = ads_rows
           /\ account_keywords' = account_keywords ]_vars

\* a report with one id counted and another one warned about
C22_Witness ==
    /\ ads_variant = "preview"
    /\ update_count = 1
    /\ warned # {}
    /\ Differing(DesiredStatuses(ads_rows), account_keywords) # {}

\* the outcomes a logged history row may carry
LoggedOutcomes == {"INFO", "SUCCESS", "FAILURE"}

\* C27: in the push service the history rows correspond one-to-one and in
\* order with the prepared operations (a row with an unrecognized status is
\* in neither list), and when the history is logged every row of a call
\* carries the same outcome, one of INFO, SUCCESS, FAILURE, never unset.
C27_HistoryMirrorsOperations ==
    ads_variant = "push_service"
    => /\ Len(history) <= Len(prepared_log)
       /\ ads_response # Uncaught("service")
            => Len(history) = Len(prepared_log)
       /\ \A k \in 1..Len(history) :
            /\ history[k].customer_id = prepared_log[k].customer_id
            /\ history[k].criterion_id = prepared_log[k].criterion_id
            /\ history[k].new_status = prepared_log[k].status
            /\ history[k].outcome \in LoggedOutcomes
            /\ \A j \in 1..Len(history) :
                 history[j].customer_id = history[k].customer_id
                 => history[j].outcome = history[k].outcome

\* a batch holding a row that is skipped and a row that is logged
C27_Witness ==
    /\ ads_variant = "push_service"
    /\ ads_pc = "done"
    /\ Len(history) = 1
    /\ Len(prepared_log) = 1
    /\ Len(ads_rows) = 2
    /\ ads_rows[1].customer_id = ads_rows[2].customer_id

\* C28: the ads push handles customers independently: a failed mutate, or
\* any error, while one customer's batch is handled does not prevent the
\* batches of the remaining customers from being attempted.
C28_EveryCustomerAttempted ==
    (ads_variant \in GroupedVariants /\ ads_pc = "done"
        /\ mutate_calls # << >>)
    => customers_left = << >>

\* the spellings of "true"
TrueSpellings == {"true", "True", "TRUE"}

\* C29: the push service is in dry-run mode exactly when DRY_RUN is unset or
\* equals "true" ignoring case; with the variable unset no mutate request is
\* sent, and every other value puts the service in live mode.
C29_DryRunFromEnvironment ==
    ads_variant = "push_service"
    => /\ dry_run <=> (~env_dry_run.set \/ env_dry_run.value \in TrueSpellings)
       /\ ~env_dry_run.set => mutate_calls = << >>

\* the service ran to its end with DRY_RUN unset and operations prepared
C29_Witness ==
    /\ ads_variant = "push_service"
    /\ ~env_dry_run.set
    /\ ads_pc = "done"
    /\ prepared_log # << >>

(***************************************************************************)
(* The GSC-to-BigQuery script, src/search_console/gsc_to_bigquery.py.      *)
(***************************************************************************)
\* the most rows a GSC query returns
MaxGscRows == 2

\* the keys of the config dictionary of get_all_configs
SecretIds ==
    {"GSC_PROPERTY", "BIGQUERY_PROJECT_ID", "BIGQUERY_DATASET_ID",
     "BIGQUERY_TABLE_ID", "GSC_SA_KEY_JSON_STR"}

\* get_all_configs returning the dictionary when some secret was retrieved
ConfigsAny(retrieved) == retrieved # {}
\* len(successful_configs) != len(config): return None
ConfigsComplete(retrieved) == Cardinality(retrieved) = Cardinality(SecretIds)

GscInit ==
    /\ SyncIdle
    /\ AdsIdle
    /\ OverlapIdle
    /\ RerunIdle
    /\ g_pc = "project"
    /\ g_steps = << >>
    /\ g_config = {}
    /\ g_rows = 0
    /\ g_table \in { PreviousLoad(n) : n \in 0..MaxGscRows }
    /\ g_load_started = FALSE

GscFrame == UNCHANGED << sync_vars, ads_vars, overlap_vars, rerun_vars >>

\* the step succeeded: the __main__ block goes on to the next one
GscStep(step, next) ==
    /\ g_steps' = Append(g_steps, step)
    /\ g_pc' = next
\* the step failed: every else branch of the __main__ block only prints
GscStop ==
    /\ g_pc' = "done"
    /\ UNCHANGED g_steps

\* current_project_id = get_current_project_id()
GetCurrentProjectId ==
    /\ g_pc = "project"
    /\ \E found \in BOOLEAN :
         IF found THEN GscStep("project_id", "configs") ELSE GscStop
    /\ UNCHANGED << g_config, g_rows, g_table, g_load_started >>
    /\ GscFrame

\* config = get_all_configs(current_project_id)
GetAllConfigs ==
    /\ g_pc = "configs"
    /\ \E client_ok \in BOOLEAN :
         IF ~client_ok
         THEN /\ GscStop
              /\ UNCHANGED g_config
         ELSE \E retrieved \in SUBSET SecretIds :
                /\ g_config' = retrieved
                /\ IF ConfigsComplete(retrieved)
                   THEN GscStep("secrets", "auth")
                   ELSE GscStop
    /\ UNCHANGED << g_rows, g_table, g_load_started >>
    /\ GscFrame

\* gsc_service = authenticate_gsc_with_service_account(config): json.loads
\* of a key that is None raises, and every exception gives None
AuthenticateGsc ==
    /\ g_pc = "auth"
    /\ \E ok \in BOOLEAN :
         IF ok /\ "GSC_SA_KEY_JSON_STR" \in g_config
         THEN GscStep("auth", "query")
         ELSE GscStop
    /\ UNCHANGED << g_config, g_rows, g_table, g_load_started >>
    /\ GscFrame

\* performance_data = get_gsc_data(gsc_service, gsc_property), then
\* `if performance_data:`; a query without siteUrl raises inside the try
GetGscData ==
    /\ g_pc = "query"
    /\ \E failed \in BOOLEAN :
         IF failed \/ "GSC_PROPERTY" \notin g_config
         THEN /\ GscStop
              /\ UNCHANGED g_rows
         ELSE \E n \in 0..MaxGscRows :
                /\ g_rows' = n
                /\ IF n > 0 THEN GscStep("rows", "load") ELSE GscStop
    /\ UNCHANGED << g_config, g_table, g_load_started >>
    /\ GscFrame

\* load_data_to_bigquery(performance_data, config): the client, the table
\* reference and the DataFrame, then the WRITE_TRUNCATE load job; a load job
\* that fails leaves the table as it was
LoadDataToBigquery ==
    /\ g_pc = "load"
    /\ g_pc' = "done"
    /\ IF g_rows = 0
       THEN UNCHANGED << g_steps, g_table, g_load_started >>
       ELSE \E out \in {"client_error", "prepare_error", "load_error",
                        "loaded"} :
              IF \/ out \in {"client_error", "prepare_error"}
                 \/ "BIGQUERY_DATASET_ID" \notin g_config
              THEN UNCHANGED << g_steps, g_table, g_load_started >>
              ELSE /\ g_steps' = Append(g_steps, "load")
                   /\ g_load_started' = TRUE
                   /\ g_table' =
                        IF out = "loaded" /\ "BIGQUERY_TABLE_ID" \in g_config
                        THEN [loaded_by |-> "load", rows |-> g_rows]
                        ELSE g_table
    /\ UNCHANGED << g_config, g_rows >>
    /\ GscFrame

GscNext ==
    \/ GetCurrentProjectId
    \/ GetAllConfigs
    \/ AuthenticateGsc
    \/ GetGscData
    \/ LoadDataToBigquery

GscSpec == GscInit /\ [][GscNext]_vars

\* the steps ahead of a load, in the order of the __main__ block
StepsOfALoad == << "project_id", "secrets", "auth", "rows", "load" >>

\* C30: the GSC script starts the truncating load only after, in this
\* order, the project id was determined, all five secrets were retrieved,
\* authentication succeeded and the GSC query returned at least one row; in
\* every other case the destination table is left untouched.
C30_LoadOnlyAfterEveryStep ==
    [][ /\ g_load_started'
           => /\ g_steps' = StepsOfALoad
              /\ g_config' = SecretIds
              /\ g_rows' >= 1
        /\ ~g_load_started' => g_table' = g_table ]_vars

\* a load that replaced the table
C30_Witness ==
    /\ g_load_started
    /\ g_table.loaded_by = "load"
    /\ g_table.rows = g_rows

(***************************************************************************)
(* The sync cycle run twice: every keyword gets the same desktop and the   *)
(* same mobile response in both runs.                                      *)
(***************************************************************************)
\* a failed fetch, the advertiser ranked first, a competitor's ad
RerunPayloads ==
    { NullSerp,
      OkSerp(<< Organic(MyDomain, 1) >>),
      OkSerp(<< AdsBlock(<< RivalDomain >>) >>) }

RerunInit ==
    /\ AdsIdle
    /\ OverlapIdle
    /\ GscIdle
    /\ variant \in Variants
    /\ configured = TRUE
    /\ secrets_fetched = NumSecrets
    /\ table \in { TableOf(sts) : sts \in Tables }
    /\ source_outcome = "pending"
    /\ keywords_data = << >>
    /\ pc = "start"
    /\ idx = 0
    /\ desktop_serp_data = NullSerp
    /\ mobile_serp_data = NullSerp
    /\ analysis = NoAnalysis
    /\ new_status = NoStatus
    /\ all_competitors = {}
    /\ fetches = << >>
    /\ sink_calls = << >>
    /\ response = Running
    /\ cycle = 1
    /\ serp_of \in [1..Len(table) -> RerunPayloads \X RerunPayloads]
    /\ first = NoFirst

RerunFetchDesktop ==
    FetchDesktopFrom({ serp_of[RowAt(keywords_data, idx).keyword][1] })
RerunFetchMobile ==
    FetchMobileFrom({ serp_of[RowAt(keywords_data, idx).keyword][2] })

\* main() is entered again: the next run of the script, the next request
\* to the service
Retrigger ==
    /\ pc = "done"
    /\ cycle = 1
    /\ cycle' = 2
    /\ first' = [writes |-> Len(sink_calls), table |-> table,
                 source |-> source_outcome, response |-> response]
    /\ pc' = "start"
    /\ response' = Running
    /\ source_outcome' = "pending"
    /\ keywords_data' = << >>
    /\ idx' = 0
    /\ desktop_serp_data' = NullSerp
    /\ mobile_serp_data' = NullSerp
    /\ analysis' = NoAnalysis
    /\ new_status' = NoStatus
    /\ all_competitors' = {}
    /\ UNCHANGED << variant, configured, secrets_fetched, table, fetches,
                    sink_calls, serp_of >>
    /\ UNCHANGED << ads_vars, overlap_vars, gsc_vars >>

RerunNext ==
    \/ BeginCycle
    \/ RerunFetchDesktop
    \/ RerunFetchMobile
    \/ AnalyzeRecord
    \/ SinkWrite
    \/ SkipWrite
    \/ Retrigger

RerunSpec == RerunInit /\ [][RerunNext]_vars

\* the first run went through every record and all its sink writes succeeded
FirstRunClean ==
    /\ cycle = 2
    /\ first.source = "rows"
    /\ first.response = (IF variant = "script" THEN ReturnedNone ELSE Complete)
    /\ \A n \in 1..first.writes : sink_calls[n].ok

\* C24: the cycle is idempotent on unchanged evidence: after a cycle in
\* which every sink write succeeded, the cycle run again with the same SERP
\* responses issues no sink write and leaves every stored status unchanged.
C24_SecondRunWritesNothing ==
    FirstRunClean
    => /\ Len(sink_calls) = first.writes
       /\ \A k \in 1..Len(table) : table[k].status = first.table[k].status

====
